---- MODULE Spec2Model ----
(***************************************************************************)
(* Enroll-Ease: the Streamlit session of src/main.py.                      *)
(*                                                                         *)
(* One step of the model is one execution of run_streamlit() triggered by  *)
(* one user interaction (a category button, the text input, Send, or the   *)
(* viewer's Rerun command), followed, when the script calls                *)
(* st.experimental_rerun(), by the execution that call starts.             *)
(* st.session_state is a function whose DOMAIN is the set of keys present. *)
(***************************************************************************)
EXTENDS Integers, Sequences, FiniteSets, TLC

VARIABLES session_state, widgets, shown, event

vars == <<session_state, widgets, shown, event>>

\* Cap on the number of chat entries explored.
MaxHistory == 2

\* Python's None.
None == "None"

\* Texts the user may have in the question box ("" is the empty box).
Questions == {"", "q1", "q2"}

----------------------------------------------------------------------------
\* The dictionary pdf_paths.
pdf_paths ==
  [college_info      |-> "about_college.pdf",
   seatsmatrix       |-> "seatsmatrix.pdf",
   admission_process |-> "admissionprocess.pdf",
   Cutoff            |-> "cuttoffs.pdf",
   fees              |-> "feesstructure.pdf"]

\* The category buttons in the order the script creates them.
CategoryButtons ==
  <<"About College", "Admission Process", "Cut-off", "Seat Allotment",
    "Fees Structure">>

CategoryLabels == {CategoryButtons[i] : i \in 1..Len(CategoryButtons)}

ButtonKey_Swapped(b) ==
  CASE b = "About College"     -> "college_info"
    [] b = "Admission Process" -> "admission_process"
    [] b = "Cut-off"           -> "seatsmatrix"
    [] b = "Seat Allotment"    -> "Cutoff"
    [] b = "Fees Structure"    -> "fees"

\* The key of pdf_paths each button's branch reads.
ButtonKey(b) ==
  CASE b = "About College"     -> "college_info"
    [] b = "Admission Process" -> "admission_process"
    [] b = "Cut-off"           -> "Cutoff"
    [] b = "Seat Allotment"    -> "seatsmatrix"
    [] b = "Fees Structure"    -> "fees"

----------------------------------------------------------------------------
\* st.session_state as a dictionary.
Has(s, k) == k \in DOMAIN s

Set(s, k, v) == [x \in DOMAIN s \cup {k} |-> IF x = k THEN v ELSE s[x]]

Pop(s, k) == [x \in DOMAIN s \ {k} |-> s[x]]

PopDb_Kept(s) == s

\* st.session_state.pop('db', None)
PopDb(s) == Pop(s, "db")

----------------------------------------------------------------------------
\* The ingestion pipeline.  The text of a PDF is not program state; what the
\* model keeps of each stage is the document it was computed from.
load_pdf(pdf_path) == [source |-> pdf_path]

split_documents(docs) ==
  [source |-> docs.source, chunk_size |-> 1000, chunk_overlap |-> 200]

initialize_embeddings(documents) == [index_of |-> documents]

preload_data(pdf_path) ==
  initialize_embeddings(split_documents(load_pdf(pdf_path)))

\* The query pipeline.
initialize_llm == [model_name |-> "mixtral-8x7b-32768"]

create_prompt == [variables |-> {"context", "input"}]

create_chains(llm, prompt, db) ==
  [retriever |-> db, llm |-> llm, prompt |-> prompt]

\* retrieval_chain.invoke({"input": question})['answer'].  The wording of an
\* answer is the language model's; the model keeps what the answer was
\* computed from: the document whose index was searched and the question.
process_question(retrieval_chain, question) ==
  [context |-> retrieval_chain.retriever.index_of.source,
   input   |-> question]

----------------------------------------------------------------------------
\* if 'pdf_path' not in st.session_state: st.session_state.pdf_path = None
InitSelection(s) == IF Has(s, "pdf_path") THEN s ELSE Set(s, "pdf_path", None)

ChatSectionShown_Always(s) == TRUE

\* if st.session_state.pdf_path is not None:
ChatSectionShown(s) == s.pdf_path # None

\* if 'chat_history' not in st.session_state: st.session_state.chat_history = []
InitHistory(s) ==
  IF Has(s, "chat_history") THEN s ELSE Set(s, "chat_history", <<>>)

\* st.text_input(..., key="input"): the widget's value lives under its key.
TextInput(s) == IF Has(s, "input") THEN s ELSE Set(s, "input", "")

\* The chat section up to and including the text input.
ChatSection(s) ==
  IF ChatSectionShown(s) THEN TextInput(InitHistory(s)) ELSE s

\* An execution of the script in which no button returns True.
PlainRun(s) == ChatSection(InitSelection(s))

\* What such an execution leaves on the page.
PlainWidgets(s) ==
  CategoryLabels \cup (IF ChatSectionShown(s) THEN {"input", "Send"} ELSE {})

\* for chat in st.session_state.chat_history: st.markdown(...)
PlainShown(s) == IF ChatSectionShown(s) THEN s.chat_history ELSE <<>>

\* The buttons already created when the branch of button b is running.
CreatedUpTo(b) ==
  {CategoryButtons[i] : i \in {j \in 1..Len(CategoryButtons) :
      \E k \in j..Len(CategoryButtons) : CategoryButtons[k] = b}}

\* A script execution that did not reach the text input may or may not
\* discard the input widget's stored value (it depends on how the run ended).
AfterInterruptedRun(s) == {s, Pop(s, "input")}

AppendChat_Front(h, e) == <<e>> \o h

\* st.session_state.chat_history.append(...)
AppendChat(h, e) == Append(h, e)

----------------------------------------------------------------------------
\* The session after the first execution of the script.
Init ==
  /\ session_state = PlainRun(<<>>)
  /\ widgets = PlainWidgets(PlainRun(<<>>))
  /\ shown = PlainShown(PlainRun(<<>>))
  /\ event = [widget |-> "load", outcome |-> "done"]

\* The viewer reruns the script; no widget changed.
Rerun ==
  /\ session_state' = PlainRun(session_state)
  /\ widgets' = PlainWidgets(session_state')
  /\ shown' = PlainShown(session_state')
  /\ event' = [widget |-> "Rerun", outcome |-> "done"]

\* The user commits a new text in the question box.
TypeQuestion(q) ==
  /\ "input" \in widgets
  /\ q # session_state.input
  /\ session_state' = PlainRun(Set(session_state, "input", q))
  /\ widgets' = PlainWidgets(session_state')
  /\ shown' = PlainShown(session_state')
  /\ event' = [widget |-> "input", outcome |-> "done"]

\* The session in the branch of button b after pdf_path is assigned and the
\* previous index popped.
Selected(s, b) ==
  PopDb(Set(InitSelection(s), "pdf_path", pdf_paths[ButtonKey(b)]))

\* A category button is pressed and preload_data returns.
CategoryPress(b) ==
  /\ b \in widgets
  /\ LET s2 == Selected(session_state, b)
         s3 == Set(s2, "db", preload_data(s2.pdf_path))
     IN  \E s4 \in AfterInterruptedRun(s3) :
           session_state' = PlainRun(s4)
  /\ widgets' = PlainWidgets(session_state')
  /\ shown' = PlainShown(session_state')
  /\ event' = [widget |-> b, outcome |-> "rerun"]

\* A category button is pressed and preload_data raises.
CategoryPressRaise(b) ==
  /\ b \in widgets
  /\ session_state' \in AfterInterruptedRun(Selected(session_state, b))
  /\ widgets' = CreatedUpTo(b)
  /\ shown' = <<>>
  /\ event' = [widget |-> b, outcome |-> "raised"]

\* Send with an empty question box: the condition of the if is false.
SendEmpty ==
  /\ "Send" \in widgets
  /\ session_state.input = ""
  /\ session_state' = PlainRun(session_state)
  /\ widgets' = PlainWidgets(session_state')
  /\ shown' = PlainShown(session_state')
  /\ event' = [widget |-> "Send", outcome |-> "done"]

\* Send with a question and no index: st.warning.
SendWarn ==
  /\ "Send" \in widgets
  /\ session_state.input # ""
  /\ ~ Has(session_state, "db")
  /\ session_state' = PlainRun(session_state)
  /\ widgets' = PlainWidgets(session_state')
  /\ shown' = PlainShown(session_state')
  /\ event' = [widget |-> "Send", outcome |-> "warning"]

\* Send with a question and an index; the chain returns an answer.
SendAnswer ==
  /\ "Send" \in widgets
  /\ session_state.input # ""
  /\ Has(session_state, "db")
  /\ Len(session_state.chat_history) < MaxHistory
  /\ LET s1 == PlainRun(session_state)
         question == s1.input
         retrieval_chain == create_chains(initialize_llm, create_prompt, s1.db)
         answer == process_question(retrieval_chain, question)
         s2 == Set(s1, "chat_history",
                   AppendChat(s1.chat_history,
                              [question |-> question, answer |-> answer]))
     IN  session_state' = PlainRun(s2)
  /\ widgets' = PlainWidgets(session_state')
  /\ shown' = PlainShown(session_state')
  /\ event' = [widget |-> "Send", outcome |-> "rerun"]

\* Send with a question and an index; building or invoking the chain raises.
SendRaise ==
  /\ "Send" \in widgets
  /\ session_state.input # ""
  /\ Has(session_state, "db")
  /\ session_state' = PlainRun(session_state)
  /\ widgets' = PlainWidgets(session_state')
  /\ shown' = PlainShown(session_state')
  /\ event' = [widget |-> "Send", outcome |-> "raised"]

Next ==
  \/ Rerun
  \/ \E q \in Questions : TypeQuestion(q)
  \/ \E b \in CategoryLabels : CategoryPress(b)
  \/ \E b \in CategoryLabels : CategoryPressRaise(b)
  \/ SendEmpty
  \/ SendWarn
  \/ SendAnswer
  \/ SendRaise

Spec == Init /\ [][Next]_vars

----------------------------------------------------------------------------
\* Readings of the session used by the properties.
pdf_path == session_state.pdf_path

HasDb == Has(session_state, "db")

History ==
  IF Has(session_state, "chat_history") THEN session_state.chat_history
  ELSE <<>>

IsCategoryEvent(e) == e.widget \in CategoryLabels

\* The db entry, when present, is the index built from the PDF pdf_path names.
IndexMatches(s) == Has(s, "db") => s.db = preload_data(s.pdf_path)

PdfFiles ==
  {"about_college.pdf", "admissionprocess.pdf", "cuttoffs.pdf",
   "seatsmatrix.pdf", "feesstructure.pdf"}

\* The file each button is documented to select.
ExpectedFile(b) ==
  CASE b = "About College"     -> "about_college.pdf"
    [] b = "Admission Process" -> "admissionprocess.pdf"
    [] b = "Cut-off"           -> "cuttoffs.pdf"
    [] b = "Seat Allotment"    -> "seatsmatrix.pdf"
    [] b = "Fees Structure"    -> "feesstructure.pdf"

\* Some chat entry was answered from a document other than the selected one.
HasEntryFromOtherPdf ==
  \E i \in 1..Len(History) : History[i].answer.context # pdf_path

\* C1: whenever db is present it is the index preload_data builds from the
\* PDF pdf_path currently names, also right after a category press whose
\* preload_data raised; and every answer a Send appends was retrieved from
\* the index of the PDF selected when Send was pressed.
C1_AnswersFromSelectedPdf ==
  [][ /\ IndexMatches(session_state)
      /\ IndexMatches(session_state')
      /\ (event'.widget = "Send" /\ Len(History') > Len(History))
           => History'[Len(History')].answer.context = pdf_path ]_vars

\* C1 witness: a category press raised in preload_data after another PDF had
\* been selected and queried; no index is left.
C1_Witness ==
  /\ IsCategoryEvent(event)
  /\ event.outcome = "raised"
  /\ ~ HasDb
  /\ HasEntryFromOtherPdf

\* C2: pdf_path is None or one of the five files; a category press sets it to
\* the file of the pressed button and nothing else changes it, so it is
\* always the file of the last button pressed.
C2_ButtonSelectsItsPdf ==
  [][ /\ pdf_path \in PdfFiles \cup {None}
      /\ pdf_path' \in PdfFiles \cup {None}
      /\ IsCategoryEvent(event') => pdf_path' = ExpectedFile(event'.widget)
      /\ ~ IsCategoryEvent(event') => pdf_path' = pdf_path ]_vars

\* C2 witness: Seat Allotment pressed with success after another PDF had been
\* selected and queried.
C2_Witness ==
  /\ event = [widget |-> "Seat Allotment", outcome |-> "rerun"]
  /\ pdf_path = "seatsmatrix.pdf"
  /\ HasDb
  /\ HasEntryFromOtherPdf

\* C3: after a category button press the session holds no index and no
\* chat_history entry produced under the previously selected PDF.
C3_PressClearsPreviousData ==
  [][ IsCategoryEvent(event') =>
        /\ IndexMatches(session_state')
        /\ \A i \in 1..Len(History') :
             History'[i].answer.context # pdf_path ]_vars

\* With no PDF selected there is no index, no chat entry, and no question
\* input or Send button on the page.
NothingBeforeSelection ==
  pdf_path = None =>
    /\ ~ HasDb
    /\ History = <<>>
    /\ "Send" \notin widgets
    /\ "input" \notin widgets

\* C4: while pdf_path = None, chat_history is absent or empty, db is absent,
\* and no Send is processed: the step out of such a state is never a Send and
\* appends nothing.
C4_ChatOnlyAfterSelection ==
  [][ /\ NothingBeforeSelection
      /\ NothingBeforeSelection'
      /\ pdf_path = None => (event'.widget # "Send" /\ History' = <<>>) ]_vars

\* C4 witness: the script has been rerun with no PDF selected.
C4_Witness ==
  /\ pdf_path = None
  /\ event.widget = "Rerun"
  /\ ~ Has(session_state, "chat_history")

\* The step appended exactly the entry for the submitted question at the end
\* of chat_history, displayed the history in that order, and left pdf_path
\* and db alone.
SendAppended ==
  /\ session_state'.chat_history =
       Append(session_state.chat_history,
              [question |-> session_state.input,
               answer   |-> [context |-> session_state.db.index_of.source,
                             input   |-> session_state.input]])
  /\ shown' = session_state'.chat_history
  /\ session_state'.pdf_path = session_state.pdf_path
  /\ session_state'.db = session_state.db

\* A Send step with a non-empty question and an index present.
IsSendWithDb ==
  /\ event'.widget = "Send"
  /\ HasDb
  /\ session_state.input # ""

====
